---- MODULE Spec2Model ----
(***************************************************************************)
(* A state-machine model of pints: the MCMC results summary                *)
(* (pints/_mcmc/_results.py), the parameter transformations                *)
(* (pints/_transformation.py) and the toy log-pdfs: the multimodal         *)
(* Gaussian (pints/toy/_multimodal_gaussian.py) and Neal's funnel          *)
(* (pints/toy/_neals_funnel.py).                                           *)
(*                                                                         *)
(* Conventions.  A Python value that may be None is None (the empty        *)
(* tuple) or Some(v).  A 2-d numpy array is a record [shape, rows].  A     *)
(* real number that is a quotient of integers is a reduced fraction        *)
(* <<num, den>>; other reals are kept as terms over their arguments.       *)
(***************************************************************************)
EXTENDS Integers, Sequences, FiniteSets, TLC

VARIABLES
    args,                \* arguments of the last MCMCResults(...) call
    self,                \* the MCMCResults instance (its attributes)
    raised,              \* exception raised by the last MCMCResults(...) call
    warnings,            \* warnings logged by the last MCMCResults(...) call
    logging_configured,  \* process-global: logging.basicConfig() has run
    stacked,             \* the local `stacked` of the last make_summary()
    ret,                 \* what the last call on the instance returned
    recalcs,             \* make_summary() calls made after construction
    transform,           \* class of the Transform instance
    tcall,               \* last call made on the Transform instance
    tresult,             \* outcome of that call
    mmg,                 \* the MultimodalGaussianLogPDF instance
    mmg_args,            \* arguments of the last MultimodalGaussianLogPDF(...)
    mmg_raised,          \* exception raised by the last call on it
    samples,             \* argument of the last kl_divergence / distance call
    best_mode,           \* the local `best_mode` of the last kl_divergence
    moments_of,          \* per mode, the local `y` of the last kl_divergence
    fallback,            \* per mode, whether line 177 ran in that call
    mmg_ret,             \* what the last call on the instance returned
    funnel,              \* the NealsFunnelLogPDF instance
    funnel_args,         \* argument of the last NealsFunnelLogPDF(...)
    funnel_raised,       \* exception raised by the last call on it
    funnel_ret,          \* what the last call on the instance returned
    np_random            \* process-global: variates np.random has handed out

vars == <<args, self, raised, warnings, logging_configured, stacked, ret,
          recalcs, transform, tcall, tresult, mmg, mmg_args, mmg_raised,
          samples, best_mode, moments_of, fallback, mmg_ret, funnel,
          funnel_args, funnel_raised, funnel_ret, np_random>>

results_vars == <<args, self, raised, warnings, logging_configured, stacked,
                  ret, recalcs>>
transform_vars == <<transform, tcall, tresult>>
mmg_vars == <<mmg, mmg_args, mmg_raised, samples, best_mode, moments_of,
              fallback, mmg_ret>>
funnel_vars == <<funnel, funnel_args, funnel_raised, funnel_ret>>

----------------------------------------------------------------------------
(* Bounds of the model.                                                    *)

MaxChains == 2      \* chains passed to MCMCResults
MaxRows == 3        \* rows of one chain
MaxDim == 2         \* parameters (columns)
MaxRecalc == 1      \* make_summary() calls after construction
MaxModes == 2       \* modes of a MultimodalGaussianLogPDF
MaxSamples == 2     \* rows of a sample array
MaxFunnelDim == 3   \* dimensions of a NealsFunnelLogPDF
MaxRandomCalls == 4 \* calls on np.random in one run of the process

----------------------------------------------------------------------------
(* Python / numpy values.                                                  *)

None == <<>>
Some(v) == <<v>>
Get(o) == Head(o)

Array(rows, d) == [shape |-> <<Len(rows), d>>, rows |-> rows]

\* a[lo:hi, :] with 0 <= lo, hi clipped to the number of rows
Slice(a, lo, hi) ==
    LET n == a.shape[1]
        h == IF hi > n THEN n ELSE hi
    IN  Array(IF lo >= h THEN <<>> ELSE SubSeq(a.rows, lo + 1, h), a.shape[2])

RECURSIVE vstack_rows(_)
vstack_rows(arrays) ==
    IF arrays = <<>> THEN <<>>
    ELSE Head(arrays).rows \o vstack_rows(Tail(arrays))

\* np.vstack
vstack(arrays) == Array(vstack_rows(arrays), arrays[1].shape[2])

Column(a, i) == [k \in 1..a.shape[1] |-> a.rows[k][i]]

RECURSIVE SeqSum(_)
SeqSum(s) == IF s = <<>> THEN 0 ELSE Head(s) + SeqSum(Tail(s))

Abs(x) == IF x < 0 THEN -x ELSE x

RECURSIVE GCD(_, _)
GCD(a, b) == IF b = 0 THEN a ELSE GCD(b, a % b)

\* the reduced fraction n/d, d > 0
Frac(n, d) ==
    LET g == GCD(Abs(n), d)
    IN  <<n \div g, d \div g>>

\* int(q) of a number q = <<num, den>>: truncation towards zero
int(q) == IF q[1] >= 0 THEN q[1] \div q[2] ELSE -((-q[1]) \div q[2])

RECURSIVE Insert(_, _)
Insert(x, s) ==
    IF s = <<>> THEN <<x>>
    ELSE IF x <= Head(s) THEN <<x>> \o s
    ELSE <<Head(s)>> \o Insert(x, Tail(s))

RECURSIVE Sorted(_)
Sorted(s) == IF s = <<>> THEN <<>> ELSE Insert(Head(s), Sorted(Tail(s)))

\* np.mean(a, axis=0)
np_mean(a) ==
    [i \in 1..a.shape[2] |-> Frac(SeqSum(Column(a, i)), a.shape[1])]

\* np.std(a, axis=0): the square root of the population variance
np_std(a) ==
    [i \in 1..a.shape[2] |->
        LET c == Column(a, i)
            n == a.shape[1]
            s == SeqSum(c)
            ss == SeqSum([k \in 1..n |-> c[k] * c[k]])
        IN  [sqrt |-> Frac(n * ss - s * s, n * n)]]

\* the percentiles requested at _results.py:109, in tenths of a percent
Percentiles == <<25, 250, 500, 750, 975>>

\* np.percentile(a, q, axis=0) with linear interpolation: row per percentile
np_percentile(a) ==
    [p \in 1..Len(Percentiles) |->
        [i \in 1..a.shape[2] |->
            LET c == Sorted(Column(a, i))
                n == a.shape[1]
                pos == Percentiles[p] * (n - 1)
                lo == pos \div 1000
                rem == pos % 1000
                hi == IF lo + 1 < n THEN lo + 1 ELSE lo
            IN  Frac(1000 * c[lo + 1] + rem * (c[hi + 1] - c[lo + 1]), 1000)]]

\* pints.effective_sample_size(samples): one value per column
effective_sample_size(a) ==
    [i \in 1..a.shape[2] |-> [fn |-> "ess", of |-> Column(a, i)]]

\* pints.rhat_all_params(chains): one value per column, from the chains
rhat_all_params(chains) ==
    [i \in 1..chains[1].shape[2] |->
        [fn |-> "rhat",
         of |-> [c \in 1..Len(chains) |-> Column(chains[c], i)]]]

\* str(n) for 0 <= n <= 99
Digits == <<"0", "1", "2", "3", "4", "5", "6", "7", "8", "9">>
str(n) ==
    IF n < 10 THEN Digits[n + 1]
    ELSE Digits[(n \div 10) + 1] \o Digits[(n % 10) + 1]

----------------------------------------------------------------------------
(* class MCMCResults (pints/_mcmc/_results.py).                            *)

\* an instance before __init__ has assigned anything; attrs is the set of
\* attributes assigned so far
NoInstance ==
    [attrs |-> {}, _chains |-> <<>>, _num_params |-> 0, _time |-> None,
     _parameter_names |-> <<>>, _ess |-> None, _ess_per_second |-> None,
     _mean |-> None, _quantiles |-> None, _rhat |-> None, _std |-> None,
     _summary_list |-> <<>>, _num_chains |-> 0]

SetAttr(obj, name, v) == [obj EXCEPT ![name] = v, !.attrs = @ \cup {name}]

OneChainWarning ==
    "Summaries calculated with one chain may be unreliable. It is recommended that you rerun sampling with more than one chain"
TimeError == "ValueError: Elapsed time must be positive."
NamesError ==
    "ValueError: Parameter names list must be same length as number of sampled parameters"
NoError == "none"

\* half = int(shapes[0] / 2)
half_of(shapes) == shapes[1] \div 2

\* first = chains[0][0:half, :]
first_half(chain, half) == Slice(chain, 0, half)

\* a second half that stops at 2 * half, dropping the last row of an odd chain
second_half_dropping_last(chain, half) == Slice(chain, half, 2 * half)

\* second = chains[0][half:, :]
second_half(chain, half) == Slice(chain, half, chain.shape[1])

\* the test written as len(chains) <= 2
at_most_two_chains(chains) == Len(chains) <= 2

\* len(chains) == 1
one_chain(chains) == Len(chains) = 1

\* the chain list stored by __init__
stored_chains(chains) ==
    IF one_chain(chains)
    THEN LET half == half_of(chains[1].shape)
         IN  <<first_half(chains[1], half), second_half(chains[1], half)>>
    ELSE chains

\* the two checks in the other order
validation_error_names_first(time, parameter_names, num_params) ==
    IF parameter_names # None /\ num_params # Len(Get(parameter_names))
    THEN NamesError
    ELSE IF time # None /\ Get(time) <= 0 THEN TimeError
    ELSE NoError

\* the checks of time and parameter_names, in the order __init__ makes them
validation_error(time, parameter_names, num_params) ==
    IF time # None /\ Get(time) <= 0 THEN TimeError
    ELSE IF parameter_names # None /\ num_params # Len(Get(parameter_names))
    THEN NamesError
    ELSE NoError

\* ["param " + str(i + 1) for i in range(num_params)]
default_names(num_params) ==
    [k \in 1..num_params |-> "param " \o str((k - 1) + 1)]

\* the product in place of the quotient
per_second_times(ess, time) ==
    [i \in 1..Len(ess) |-> [fn |-> "mul", num |-> ess[i], den |-> time]]

\* np.array(ess) / time
per_second(ess, time) ==
    [i \in 1..Len(ess) |-> [fn |-> "div", num |-> ess[i], den |-> time]]

\* one entry of _summary_list, for the parameter with 0-based index i - 1
summary_row(obj, i) ==
    LET q == Get(obj._quantiles)
        row == <<obj._parameter_names[i], Get(obj._mean)[i],
                 Get(obj._std)[i], q[1][i], q[2][i], q[3][i], q[4][i],
                 q[5][i], Get(obj._rhat)[i], Get(obj._ess)[i]>>
    IN  IF obj._time # None
        THEN Append(row, Get(obj._ess_per_second)[i])
        ELSE row

\* the value of the local `stacked` in make_summary
make_summary_stacked(obj) == vstack(obj._chains)

\* make_summary(): the instance after the call
make_summary(obj) ==
    LET st == make_summary_stacked(obj)
        s1 == SetAttr(obj, "_mean", Some(np_mean(st)))
        s2 == SetAttr(s1, "_std", Some(np_std(st)))
        s3 == SetAttr(s2, "_quantiles", Some(np_percentile(st)))
        s4 == SetAttr(s3, "_ess", Some(effective_sample_size(st)))
        s5 == IF s4._time # None
              THEN SetAttr(s4, "_ess_per_second",
                           Some(per_second(Get(s4._ess), Get(s4._time))))
              ELSE s4
        s6 == SetAttr(s5, "_num_chains", Len(s5._chains))
        s7 == SetAttr(s6, "_rhat", Some(rhat_all_params(s6._chains)))
    IN  [s7 EXCEPT !._summary_list =
            @ \o [i \in 1..s7._num_params |-> summary_row(s7, i)]]

\* __init__(chains, time, parameter_names): the instance as far as it got,
\* the exception raised and the warnings logged
MCMCResults_init(chains, time, parameter_names) ==
    LET w == IF one_chain(chains) THEN <<OneChainWarning>> ELSE <<>>
        s1 == SetAttr(NoInstance, "_chains", stored_chains(chains))
        s2 == SetAttr(s1, "_num_params", chains[1].shape[2])
        e == validation_error(time, parameter_names, s2._num_params)
        s3 == SetAttr(s2, "_time", time)
    IN  IF e = TimeError
        THEN [self |-> s2, raised |-> e, warnings |-> w]
        ELSE IF e = NamesError
        THEN [self |-> s3, raised |-> e, warnings |-> w]
        ELSE
            LET names == IF parameter_names = None
                         THEN default_names(s3._num_params)
                         ELSE Get(parameter_names)
                s4 == SetAttr(s3, "_parameter_names", names)
                s5 == SetAttr(s4, "_ess", None)
                s6 == SetAttr(s5, "_ess_per_second", None)
                s7 == SetAttr(s6, "_mean", None)
                s8 == SetAttr(s7, "_quantiles", None)
                s9 == SetAttr(s8, "_rhat", None)
                s10 == SetAttr(s9, "_std", None)
                s11 == SetAttr(s10, "_summary_list", <<>>)
            IN  [self |-> make_summary(s11), raised |-> NoError,
                 warnings |-> w]

\* headers passed to tabulate by _print_summary
Headers(obj) ==
    LET h == <<"param", "mean", "std.", "2.5%", "25%", "50%", "75%",
               "97.5%", "rhat", "ess">>
    IN  IF obj._time # None THEN Append(h, "ess per sec.") ELSE h

\* _print_summary(): the table tabulate is asked to render
print_summary(obj) == [headers |-> Headers(obj), rows |-> obj._summary_list]

----------------------------------------------------------------------------
(* Inputs of MCMCResults.                                                  *)

\* a chain is a run of consecutive draws: row k holds (start + k - 1) * i in
\* column i
ChainFrom(start, n, d) ==
    Array([k \in 1..n |-> [i \in 1..d |-> (start + k - 1) * i]], d)
\* chain c of a list of k chains starts at 10 * (k - c): the rows of a list
\* are pairwise distinct, and those of a later chain are the smaller ones
ChainListOf(lengths, d) ==
    [c \in 1..Len(lengths) |->
        ChainFrom(10 * (Len(lengths) - c), lengths[c], d)]
\* one chain needs two rows for its two halves to hold a sample at all
ChainLists(d) ==
    {ChainListOf(<<n>>, d) : n \in 2..MaxRows}
    \cup {ChainListOf(l, d) :
             l \in UNION {[1..k -> 1..MaxRows] : k \in 2..MaxChains}}
TimeVals == {None, Some(-1), Some(0), Some(2)}
NamePool == <<"alpha", "beta", "gamma", "delta", "epsilon">>
NameLists(d) ==
    {None} \cup {Some(SubSeq(NamePool, 1, n)) : n \in (d - 1)..(d + 1)}

Constructed == raised = NoError /\ self.attrs # {}

----------------------------------------------------------------------------
(* Operations on MCMCResults.                                              *)

NoCall == [method |-> "none", value |-> None]

Construct ==
    /\ self = NoInstance
    /\ raised = NoError
    /\ \E d \in 1..MaxDim :
       \E chains \in ChainLists(d), time \in TimeVals,
          names \in NameLists(d) :
          LET r == MCMCResults_init(chains, time, names)
          IN  /\ args' = Some([chains |-> chains, time |-> time,
                               parameter_names |-> names])
              /\ self' = r.self
              /\ raised' = r.raised
              /\ warnings' = r.warnings
              /\ logging_configured' =
                    (logging_configured \/ one_chain(chains))
              /\ stacked' = IF r.raised = NoError
                            THEN Some(make_summary_stacked(r.self))
                            ELSE None
    /\ ret' = NoCall
    /\ recalcs' = 0
    /\ UNCHANGED <<transform_vars, mmg_vars, funnel_vars, np_random>>

\* the instance (or the failed construction) goes out of use
Discard ==
    /\ self # NoInstance
    /\ self' = NoInstance
    /\ args' = None
    /\ raised' = NoError
    /\ warnings' = <<>>
    /\ stacked' = None
    /\ ret' = NoCall
    /\ recalcs' = 0
    /\ UNCHANGED <<logging_configured, transform_vars, mmg_vars,
                   funnel_vars, np_random>>

\* no call on the instance is in progress
Idle == Constructed /\ ret = NoCall

\* a call of an accessor, up to its return statement
Returns(m, v) ==
    /\ Idle
    /\ ret' = [method |-> m, value |-> v]
    /\ UNCHANGED <<args, self, raised, warnings, logging_configured, stacked,
                   recalcs, transform_vars, mmg_vars, funnel_vars, np_random>>

Call_str == Returns("__str__", print_summary(self))
Call_chains == Returns("chains", self._chains)
Call_ess == Returns("ess", self._ess)
Call_ess_per_second == Returns("ess_per_second", self._ess_per_second)
Call_mean == Returns("mean", self._mean)
Call_quantiles == Returns("quantiles", self._quantiles)
Call_rhat == Returns("rhat", self._rhat)
Call_std == Returns("std", self._std)
Call_summary == Returns("summary", self._summary_list)
Call_time == Returns("time", self._time)

Call_make_summary ==
    /\ Idle
    /\ recalcs < MaxRecalc
    /\ self' = make_summary(self)
    /\ stacked' = Some(make_summary_stacked(self))
    /\ ret' = [method |-> "make_summary", value |-> None]
    /\ recalcs' = recalcs + 1
    /\ UNCHANGED <<args, raised, warnings, logging_configured,
                   transform_vars, mmg_vars, funnel_vars, np_random>>

\* the call returns to its caller
Call_return ==
    /\ Constructed
    /\ ret # NoCall
    /\ ret' = NoCall
    /\ UNCHANGED <<args, self, raised, warnings, logging_configured, stacked,
                   recalcs, transform_vars, mmg_vars, funnel_vars, np_random>>

ResultsNext ==
    \/ Call_return
    \/ Construct
    \/ Discard
    \/ Call_str
    \/ Call_chains
    \/ Call_ess
    \/ Call_ess_per_second
    \/ Call_mean
    \/ Call_quantiles
    \/ Call_rhat
    \/ Call_std
    \/ Call_summary
    \/ Call_time
    \/ Call_make_summary

----------------------------------------------------------------------------
(* Properties of MCMCResults.                                              *)

Supplied == Get(args)
SuppliedDim == Supplied.chains[1].shape[2]
OneChainSupplied == args # None /\ Len(Supplied.chains) = 1

\* C1: built from exactly one chain of n rows, the instance holds the two
\* halves rows [0, n div 2) and rows [n div 2, 2 * (n div 2)): equally long,
\* the last row of an odd-length chain dropped.
C1_EqualHalves ==
    (OneChainSupplied /\ "_chains" \in self.attrs) =>
        LET c == Supplied.chains[1]
            h == c.shape[1] \div 2
        IN  /\ self._chains = <<Slice(c, 0, h), Slice(c, h, 2 * h)>>
            /\ self._chains[1].shape[1] = self._chains[2].shape[1]

\* C2: whatever public methods are called after construction, summary()
\* holds exactly one row per parameter, in parameter order, built from the
\* statistics computed at construction.
C2_SummaryNeverChanges ==
    Constructed =>
        /\ self._summary_list =
              [i \in 1..self._num_params |-> summary_row(self, i)]
        /\ self._mean = MCMCResults_init(Supplied.chains, Supplied.time,
                            Supplied.parameter_names).self._mean

SummaryAttrs ==
    {"_mean", "_std", "_quantiles", "_ess", "_ess_per_second", "_rhat",
     "_summary_list", "_num_chains"}
ParamLabels == <<"param 1", "param 2", "param 3", "param 4", "param 5">>

\* C3: construction raises ValueError when time is given and <= 0, or when
\* parameter_names is given and its length is not the column count d, the
\* time check first, and in both cases before any summary statistic is
\* computed; without parameter_names construction never fails on the names
\* and the names are "param 1" .. "param d".
C3_Validation ==
    (args # None) =>
        LET badTime == Supplied.time # None /\ Get(Supplied.time) <= 0
            badNames == /\ Supplied.parameter_names # None
                        /\ Len(Get(Supplied.parameter_names)) # SuppliedDim
        IN  /\ badTime => raised = TimeError
            /\ (~badTime /\ badNames) => raised = NamesError
            /\ (badTime \/ badNames) =>
                  /\ self.attrs \cap SummaryAttrs = {}
                  /\ stacked = None
            /\ Supplied.parameter_names = None =>
                  /\ raised # NamesError
                  /\ raised = NoError =>
                        self._parameter_names =
                            SubSeq(ParamLabels, 1, SuppliedDim)

\* C3 witness: both arguments are invalid and the time error is the one raised
C3_Witness ==
    /\ args # None
    /\ Supplied.time = Some(0)
    /\ Supplied.parameter_names # None
    /\ Len(Get(Supplied.parameter_names)) # SuppliedDim
    /\ raised = TimeError

\* the position in the pooled rows of row k of supplied chain c
RECURSIVE RowsBefore(_, _)
RowsBefore(chains, c) ==
    IF c = 1 THEN 0
    ELSE RowsBefore(chains, c - 1) + chains[c - 1].shape[1]

\* C4: the rows the statistics are computed over are the rows of all the
\* supplied chains, in order, each exactly once, also when one chain of even
\* or odd length is supplied and split.
C4_PooledRows ==
    Constructed =>
        LET chains == Supplied.chains
            n == RowsBefore(chains, Len(chains) + 1)
            pooled == Get(stacked)
        IN  /\ pooled.shape = <<n, SuppliedDim>>
            /\ \A c \in 1..Len(chains) :
               \A k \in 1..chains[c].shape[1] :
                  pooled.rows[RowsBefore(chains, c) + k] = chains[c].rows[k]
            /\ self._mean = Some(np_mean(pooled))
            /\ self._std = Some(np_std(pooled))
            /\ self._quantiles = Some(np_percentile(pooled))
            /\ self._ess = Some(effective_sample_size(pooled))

\* C4 witness: one chain with an odd number of rows was supplied and split
C4_Witness ==
    /\ Constructed
    /\ OneChainSupplied
    /\ Supplied.chains[1].shape[1] % 2 = 1
    /\ Len(self._chains) = 2

Shapes(obj) ==
    [mean |-> Len(Get(obj._mean)), std |-> Len(Get(obj._std)),
     rhat |-> Len(Get(obj._rhat)), ess |-> Len(Get(obj._ess)),
     quantiles |-> <<Len(Get(obj._quantiles)), Len(Get(obj._quantiles)[1])>>,
     summary |-> Len(obj._summary_list),
     row |-> Len(obj._summary_list[1])]

\* C5: construction logs the warning if and only if exactly one chain is
\* supplied, and the object built from one chain holds two chains and has
\* the accessor shapes (mean, std, rhat, ess of length d, quantiles 5 x d,
\* summary of d rows) of an object built from two chains of half the length.
C5_OneChainWarning ==
    (args # None) =>
        /\ (warnings # <<>>) <=> (Len(Supplied.chains) = 1)
        /\ (Constructed /\ OneChainSupplied /\ recalcs = 0) =>
              LET c == Supplied.chains[1]
                  h == c.shape[1] \div 2
                  two == MCMCResults_init(
                             <<Slice(c, 0, h), Slice(c, h, 2 * h)>>,
                             Supplied.time, Supplied.parameter_names).self
                  d == SuppliedDim
              IN  /\ Len(self._chains) = 2
                  /\ Shapes(self) = Shapes(two)
                  /\ Shapes(self).mean = d
                  /\ Shapes(self).std = d
                  /\ Shapes(self).rhat = d
                  /\ Shapes(self).ess = d
                  /\ Shapes(self).quantiles = <<5, d>>
                  /\ Shapes(self).summary = d

\* C5 witness: a freshly built object from one chain, the warning logged
C5_Witness ==
    /\ Constructed
    /\ OneChainSupplied
    /\ recalcs = 0
    /\ warnings = <<OneChainWarning>>
    /\ Len(self._chains) = 2

\* C6: ESS per second is computed exactly when time is supplied: then
\* ess_per_second()[i] = ess()[i] / time and every summary row has 11
\* entries, the last being that value; without time ess_per_second() is
\* None and every summary row has 10 entries.
C6_EssPerSecond ==
    Constructed =>
        LET d == self._num_params
            rows == self._summary_list
        IN  /\ (self._ess_per_second # None) <=> (Supplied.time # None)
            /\ ret.method = "ess_per_second" =>
                  ret.value = self._ess_per_second
            /\ Supplied.time # None =>
                  /\ \A i \in 1..d :
                        Get(self._ess_per_second)[i] =
                            [fn |-> "div", num |-> Get(self._ess)[i],
                             den |-> Get(Supplied.time)]
                  /\ \A j \in 1..Len(rows) :
                        /\ Len(rows[j]) = 11
                        /\ rows[j][11] =
                              Get(self._ess_per_second)[((j - 1) % d) + 1]
            /\ Supplied.time = None =>
                  \A j \in 1..Len(rows) : Len(rows[j]) = 10

\* C6 witness: ess_per_second() was called on an object built with a time
C6_Witness ==
    /\ Constructed
    /\ Supplied.time = Some(2)
    /\ ret.method = "ess_per_second"
    /\ ret.value # None

----------------------------------------------------------------------------
(* classes Transform, LogTransform, LogitTransform, TransformedLogPDF      *)
(* (pints/_transformation.py).  A real-valued result is the term the       *)
(* method builds: [fn, of] is fn applied to of.                            *)

TransformClasses == {"Transform", "LogTransform", "LogitTransform"}

\* the class each class extends
Base(cls) == IF cls = "Transform" THEN "object" ELSE "Transform"

\* the methods each class body defines
Defines(cls) ==
    IF cls = "Transform"
    THEN {"apply_log_pdf", "jacobian", "log_jacobian_det", "n_parameters",
          "to_model", "to_search"}
    ELSE IF cls \in {"LogTransform", "LogitTransform"}
    THEN {"jacobian", "log_jacobian_det", "to_model", "to_search"}
    ELSE {}

\* the class whose definition of method m an instance of cls runs
Resolve(cls, m) == IF m \in Defines(cls) THEN cls ELSE Base(cls)

Raise(e) == [exc |-> e, value |-> None]
Return(v) == [exc |-> NoError, value |-> Some(v)]
NotImplementedError == "NotImplementedError"

Apply(fn, v) == [fn |-> fn, of |-> v]
Each(fn, x) == [i \in 1..Len(x) |-> Apply(fn, x[i])]

\* expit(x) * (1. - expit(x))
ExpitSlope(x) ==
    [i \in 1..Len(x) |->
        Apply("mul", <<Apply("expit", x[i]),
                       Apply("sub", <<1, Apply("expit", x[i])>>)>>)]

jacobian(cls, x) ==
    LET owner == Resolve(cls, "jacobian")
    IN  IF owner = "LogTransform" THEN Return(Apply("diag", Each("exp", x)))
        ELSE IF owner = "LogitTransform"
        THEN Return(Apply("diag", ExpitSlope(x)))
        ELSE Raise(NotImplementedError)

log_jacobian_det(cls, x) ==
    LET owner == Resolve(cls, "log_jacobian_det")
    IN  IF owner = "LogTransform" THEN Return(Apply("sum", Each("exp", x)))
        ELSE IF owner = "LogitTransform"
        THEN Return(Apply("log", Apply("sum", ExpitSlope(x))))
        ELSE LET j == jacobian(cls, x)
             IN  IF j.exc # NoError THEN j
                 ELSE Return(Apply("log",
                          Apply("abs", Apply("det", Get(j.value)))))

n_parameters(cls) == Raise(NotImplementedError)

to_model(cls, x) ==
    LET owner == Resolve(cls, "to_model")
    IN  IF owner = "LogTransform" THEN Return(Each("exp", x))
        ELSE IF owner = "LogitTransform" THEN Return(Each("expit", x))
        ELSE Raise(NotImplementedError)

to_search(cls, q) ==
    LET owner == Resolve(cls, "to_search")
    IN  IF owner = "LogTransform" THEN Return(Each("log", q))
        ELSE IF owner = "LogitTransform" THEN Return(Each("logit", q))
        ELSE Raise(NotImplementedError)

\* TransformedLogPDF(log_pdf, transform), log_pdf a LogPDF of dimension d
TransformedLogPDF_init(d, cls) ==
    [_log_pdf |-> [n_parameters |-> d], _transform |-> cls,
     _n_parameters |-> d]

apply_log_pdf(cls, d) == Return(TransformedLogPDF_init(d, cls))

XVals == {-1, 0, 1}
Vectors == UNION {[1..n -> XVals] : n \in 1..MaxDim}

TCall(m, arg, outcome) ==
    /\ tcall' = Some([method |-> m, arg |-> arg])
    /\ tresult' = Some(outcome)
    /\ UNCHANGED <<transform, results_vars, mmg_vars, funnel_vars, np_random>>

NewTransform ==
    /\ \E cls \in TransformClasses : transform' = cls
    /\ tcall' = None
    /\ tresult' = None
    /\ UNCHANGED <<results_vars, mmg_vars, funnel_vars, np_random>>

T_jacobian == \E x \in Vectors : TCall("jacobian", x, jacobian(transform, x))
T_log_jacobian_det ==
    \E x \in Vectors :
        TCall("log_jacobian_det", x, log_jacobian_det(transform, x))
T_n_parameters == TCall("n_parameters", <<>>, n_parameters(transform))
T_to_model == \E x \in Vectors : TCall("to_model", x, to_model(transform, x))
T_to_search ==
    \E q \in Vectors : TCall("to_search", q, to_search(transform, q))
T_apply_log_pdf ==
    \E d \in 1..MaxDim :
        TCall("apply_log_pdf", <<d>>, apply_log_pdf(transform, d))

TransformNext ==
    \/ NewTransform
    \/ T_jacobian
    \/ T_log_jacobian_det
    \/ T_n_parameters
    \/ T_to_model
    \/ T_to_search
    \/ T_apply_log_pdf

\* C7: jacobian, to_model, to_search and n_parameters raise
\* NotImplementedError only on the abstract Transform; on LogTransform and
\* LogitTransform each of the four returns a value.
C7_OnlyBaseRaises ==
    (tcall # None /\ Get(tcall).method \in
        {"jacobian", "to_model", "to_search", "n_parameters"}) =>
        /\ Get(tresult).exc = NotImplementedError => transform = "Transform"
        /\ transform \in {"LogTransform", "LogitTransform"} =>
              /\ Get(tresult).exc = NoError
              /\ Get(tresult).value # None

----------------------------------------------------------------------------
(* class MultimodalGaussianLogPDF (pints/toy/_multimodal_gaussian.py).     *)
(* Modes and samples have integer coordinates; covariance matrices are     *)
(* symmetric integer matrices of at most two rows.                         *)

ModesEmptyError ==
    "ValueError: Argument modes must be None or a non-empty list of modes."
ModesDimError == "ValueError: All modes must have same dimension."
CovCountError ==
    "ValueError: Number of covariance matrices must equal number of modes."
CovShapeError ==
    "ValueError: Covariance matrices must have shape (d, d), where d is the dimension of the given modes."
NotPSDError == "ValueError: the input matrix must be positive semidefinite"
SingularError == "LinAlgError: singular matrix"
SamplesRankError == "ValueError: Given samples list must be n x 2."
SamplesWidthError == "ValueError: Given samples must have length d"

\* pints.vector(x): a 1-d copy of a sequence of numbers
vector(x) == x

\* np.eye(d)
eye(d) == Array([i \in 1..d |-> [j \in 1..d |-> IF i = j THEN 1 ELSE 0]], d)

\* determinant of a square matrix of one or two rows
Det(m) ==
    IF m.shape[1] = 1 THEN m.rows[1][1]
    ELSE m.rows[1][1] * m.rows[2][2] - m.rows[1][2] * m.rows[2][1]

\* adjugate of a square matrix of one or two rows
Adj(m) ==
    IF m.shape[1] = 1 THEN Array(<<<<1>>>>, 1)
    ELSE Array(<<<<m.rows[2][2], -m.rows[1][2]>>,
                 <<-m.rows[2][1], m.rows[1][1]>>>>, 2)

\* a symmetric matrix has a negative eigenvalue
HasNegativeEigenvalue(m) ==
    \/ Det(m) < 0
    \/ \E i \in 1..m.shape[1] : m.rows[i][i] < 0

\* a symmetric matrix is positive definite
PositiveDefinite(m) == ~HasNegativeEigenvalue(m) /\ Det(m) # 0

\* scipy.stats.multivariate_normal(mean, cov): the frozen distribution, or
\* the exception its covariance check raises
multivariate_normal(mean, cov) ==
    IF HasNegativeEigenvalue(cov) THEN Raise(NotPSDError)
    ELSE IF Det(cov) = 0 THEN Raise(SingularError)
    ELSE Return([mean |-> mean, cov |-> cov])

\* np.linalg.inv(m): the inverse is adj / det
inv(m) ==
    IF Det(m) = 0 THEN Raise(SingularError)
    ELSE Return([adj |-> Adj(m), det |-> Det(m)])

\* a test that only rejects too few covariance matrices
cov_count_less(covariances, modes) == Len(covariances) < Len(modes)

\* len(covariances) != len(self._modes)
cov_count_differs(covariances, modes) == Len(covariances) # Len(modes)

\* cov.shape != (self._n_parameters, self._n_parameters)
cov_shape_differs(cov, d) == cov.shape # <<d, d>>

\* the outcome of the first call in a list of calls that raises, if any
RECURSIVE FirstRaise(_)
FirstRaise(outcomes) ==
    IF outcomes = <<>> THEN NoError
    ELSE IF Head(outcomes).exc # NoError THEN Head(outcomes).exc
    ELSE FirstRaise(Tail(outcomes))

\* __init__(modes, covariances): the exception raised and the instance
MMG_init(modes, covariances) ==
    IF modes # None /\ Len(Get(modes)) < 1
    THEN [raised |-> ModesEmptyError, self |-> None]
    ELSE
    LET m == IF modes = None THEN <<<<0, 0>>, <<10, 10>>>>
             ELSE [i \in 1..Len(Get(modes)) |-> vector(Get(modes)[i])]
        d == IF modes = None THEN 2 ELSE Len(Get(modes)[1])
    IN  IF \E i \in 1..Len(m) : Len(m[i]) # d
        THEN [raised |-> ModesDimError, self |-> None]
        ELSE IF covariances # None /\ cov_count_differs(Get(covariances), m)
        THEN [raised |-> CovCountError, self |-> None]
        ELSE
        LET c == IF covariances = None THEN [i \in 1..Len(m) |-> eye(d)]
                 ELSE Get(covariances)
        IN  IF \E i \in 1..Len(c) : cov_shape_differs(c[i], d)
            THEN [raised |-> CovShapeError, self |-> None]
            ELSE
            LET v == [i \in 1..Len(m) |-> multivariate_normal(m[i], c[i])]
                si == [i \in 1..Len(m) |-> inv(c[i])]
            IN  IF FirstRaise(v) # NoError
                THEN [raised |-> FirstRaise(v), self |-> None]
                ELSE IF FirstRaise(si) # NoError
                THEN [raised |-> FirstRaise(si), self |-> None]
                ELSE [raised |-> NoError,
                      self |-> Some(
                          [_n_parameters |-> d, _modes |-> m, _covs |-> c,
                           _vars |-> [i \in 1..Len(m) |-> Get(v[i].value)],
                           _sigma_invs |->
                               [i \in 1..Len(m) |-> Get(si[i].value)]])]

\* log(2 * pi) and log(n), n = 1..4, in millionths
Log2PiMicro == 1837877
LogMicro == <<0, 693147, 1098612, 1386294>>

\* a coordinate so large that the square of its distance to any mode
\* overflows a double (1e200, say)
Huge == 1000000
\* -float(Inf), below every finite log-density
NegInf == -2000000000

\* (x - mean)^T adj(cov) (x - mean)
QuadForm(x, mean, cov) ==
    LET a == Adj(cov).rows
        dev == [k \in 1..Len(x) |-> x[k] - mean[k]]
    IN  SeqSum([k \in 1..Len(x) |->
                   dev[k] * SeqSum([l \in 1..Len(x) |-> a[k][l] * dev[l]])])

\* var.logpdf(x) in millionths:
\* -0.5 * (d * log(2 pi) + log(det cov) + (x - mean)^T cov^-1 (x - mean)),
\* which is -inf once the squared deviation overflows
logpdf(var, x) ==
    IF \E k \in 1..Len(x) : Abs(x[k]) >= Huge THEN NegInf
    ELSE -((Len(x) * Log2PiMicro + LogMicro[Det(var.cov)]
            + (1000000 * QuadForm(x, var.mean, var.cov)) \div Det(var.cov))
           \div 2)

\* the loop of lines 165-169 from mode j (0-based) on: the final a_max_index
RECURSIVE max_index_loop(_, _, _, _, _)
max_index_loop(vs, a_sample, j, a_log_pdf, a_max_index) ==
    IF j >= Len(vs) THEN a_max_index
    ELSE LET a_test_log_pdf == logpdf(vs[j + 1], a_sample)
         IN  IF a_test_log_pdf > a_log_pdf
             THEN max_index_loop(vs, a_sample, j + 1, a_test_log_pdf, j)
             ELSE max_index_loop(vs, a_sample, j + 1, a_log_pdf, a_max_index)

\* best_mode after the loop of lines 161-170
best_modes(obj, smp) ==
    [i \in 1..smp.shape[1] |->
        max_index_loop(obj._vars, smp.rows[i], 0, NegInf, -1)]

\* the rows of smp whose entry in mask is TRUE, in order
RECURSIVE Select(_, _)
Select(rows, mask) ==
    IF rows = <<>> THEN <<>>
    ELSE (IF Head(mask) THEN <<Head(rows)>> ELSE <<>>)
         \o Select(Tail(rows), Tail(mask))

\* samples[best_mode == i, :], i 0-based
assigned_to(smp, bm, i) ==
    Array(Select(smp.rows, [k \in 1..Len(bm) |-> bm[k] = i]), smp.shape[2])

\* a test that also falls back when a single sample was assigned
at_most_one_sample(y) == Head(y.shape) <= 1

\* y.shape[0] == 0
uses_all_samples(y) == Head(y.shape) = 0

\* the array y the moments of mode i (0-based) are taken from
moments_array(smp, bm, i) ==
    LET y == assigned_to(smp, bm, i)
    IN  IF uses_all_samples(y) THEN smp ELSE y

\* kl[i]: the Gaussian KL divergence between the moments of y and mode i
kl_term(obj, y, i) ==
    [fn |-> "kl",
     form |-> IF obj._n_parameters > 1 THEN "multivariate" ELSE "univariate",
     y |-> y.rows, m1 |-> obj._modes[i + 1], s1 |-> obj._covs[i + 1]]

\* the shape checks of kl_divergence
samples_error(obj, smp) ==
    IF Len(smp.shape) # 2 THEN SamplesRankError
    ELSE IF smp.shape[2] # obj._n_parameters THEN SamplesWidthError
    ELSE NoError

\* kl_divergence(samples)
kl_divergence(obj, smp) ==
    IF samples_error(obj, smp) # NoError THEN Raise(samples_error(obj, smp))
    ELSE LET bm == best_modes(obj, smp)
         IN  Return([i \in 1..Len(obj._vars) |->
                        kl_term(obj, moments_array(smp, bm, i - 1), i - 1)])

\* distance(samples): np.sum(kl)
distance(obj, smp) ==
    LET kl == kl_divergence(obj, smp)
    IN  IF kl.exc # NoError THEN kl ELSE Return(Apply("sum", Get(kl.value)))

SampleCountError ==
    "ValueError: Number of samples must be greater than or equal to 1."

\* item i of the variates the call number c on np.random hands out
Variate(c, i) == [np_random_call |-> c, item |-> i]

\* sample(n_samples) with the global generator having handed out g calls:
\* row k is drawn by call g + 2k from the mode that call g + 2k - 1 chose
sample(obj, n_samples, g) ==
    IF n_samples < 1 THEN Raise(SampleCountError)
    ELSE Return(Array(
             [k \in 1..n_samples |->
                 [fn |-> "rvs", rand_mode |-> Variate(g + 2 * k - 1, 1),
                  variates |-> [i \in 1..obj._n_parameters |->
                                   Variate(g + 2 * k, i)]]],
             obj._n_parameters))

\* the calls on np.random that sample(n_samples) makes
sample_calls(n_samples) == IF n_samples < 1 THEN 0 ELSE 2 * n_samples

----------------------------------------------------------------------------
(* Inputs and operations of MultimodalGaussianLogPDF.                      *)

ModeVals == {<<0>>, <<2>>, <<0, 0>>, <<2, 2>>}
ModeLists == {None} \cup {Some(m) : m \in UNION {[1..n -> ModeVals] : n \in 0..MaxModes}}
CovVals ==
    {Array(<<<<1>>>>, 1), Array(<<<<0>>>>, 1),
     eye(2), Array(<<<<2, 1>>, <<1, 2>>>>, 2),
     Array(<<<<1, 2>>, <<2, 1>>>>, 2)}
CovLists ==
    {None} \cup {Some(c) : c \in UNION {[1..n -> CovVals] : n \in 0..MaxModes}}
SampleRows(d) ==
    IF d = 1 THEN {<<0>>, <<1>>, <<Huge>>}
    ELSE {<<0, 0>>, <<1, 1>>, <<Huge, 0>>}
\* a 1-d array of two numbers, and the 2-d arrays of up to MaxSamples rows
SampleArrays ==
    {[shape |-> <<2>>, rows |-> <<<<0>>, <<1>>>>]}
    \cup UNION {{Array(r, d) :
                    r \in UNION {[1..n -> SampleRows(d)] : n \in 0..MaxSamples}}
                : d \in 1..2}

MMG_Construct ==
    /\ mmg = None
    /\ mmg_args = None
    /\ \E modes \in ModeLists, covariances \in CovLists :
          LET r == MMG_init(modes, covariances)
          IN  /\ mmg_args' = Some([modes |-> modes,
                                   covariances |-> covariances])
              /\ mmg' = r.self
              /\ mmg_raised' = r.raised
    /\ samples' = None
    /\ best_mode' = <<>>
    /\ moments_of' = <<>>
    /\ fallback' = <<>>
    /\ mmg_ret' = None
    /\ UNCHANGED <<results_vars, transform_vars, funnel_vars, np_random>>

\* the instance (or the failed construction) goes out of use
MMG_Discard ==
    /\ mmg_args # None
    /\ mmg' = None
    /\ mmg_args' = None
    /\ mmg_raised' = NoError
    /\ samples' = None
    /\ best_mode' = <<>>
    /\ moments_of' = <<>>
    /\ fallback' = <<>>
    /\ mmg_ret' = None
    /\ UNCHANGED <<results_vars, transform_vars, funnel_vars, np_random>>

\* no call on the instance is in progress
MMG_Idle == mmg # None /\ mmg_ret = None

MMG_n_parameters ==
    /\ MMG_Idle
    /\ mmg_ret' = Some([method |-> "n_parameters",
                        value |-> Some(Get(mmg)._n_parameters)])
    /\ mmg_raised' = NoError
    /\ UNCHANGED <<mmg, mmg_args, samples, best_mode, moments_of, fallback,
                   results_vars, transform_vars, funnel_vars, np_random>>

\* the locals a kl_divergence call leaves behind
KLLocals(smp) ==
    IF samples_error(Get(mmg), smp) # NoError
    THEN /\ best_mode' = <<>>
         /\ moments_of' = <<>>
         /\ fallback' = <<>>
    ELSE LET bm == best_modes(Get(mmg), smp)
             M == Len(Get(mmg)._vars)
         IN  /\ best_mode' = bm
             /\ moments_of' = [i \in 1..M |-> moments_array(smp, bm, i - 1)]
             /\ fallback' =
                   [i \in 1..M |->
                       uses_all_samples(assigned_to(smp, bm, i - 1))]

\* kl_divergence(samples), up to its return statement
MMG_kl_divergence ==
    /\ MMG_Idle
    /\ \E smp \in SampleArrays :
          LET r == kl_divergence(Get(mmg), smp)
          IN  /\ samples' = Some(smp)
              /\ mmg_raised' = r.exc
              /\ mmg_ret' = Some([method |-> "kl_divergence",
                                  value |-> r.value])
              /\ KLLocals(smp)
    /\ UNCHANGED <<mmg, mmg_args, results_vars, transform_vars,
                   funnel_vars, np_random>>

\* distance(samples), up to its return statement
MMG_distance ==
    /\ MMG_Idle
    /\ \E smp \in SampleArrays :
          LET r == distance(Get(mmg), smp)
          IN  /\ samples' = Some(smp)
              /\ mmg_raised' = r.exc
              /\ mmg_ret' = Some([method |-> "distance", value |-> r.value])
              /\ KLLocals(smp)
    /\ UNCHANGED <<mmg, mmg_args, results_vars, transform_vars,
                   funnel_vars, np_random>>

SampleCounts == (-1)..2

\* sample(n_samples), up to its return statement: every draw is a call on
\* the global np.random
MMG_sample ==
    /\ MMG_Idle
    /\ \E n_samples \in SampleCounts :
          LET n == int(Frac(n_samples, 1))
              r == sample(Get(mmg), n, np_random)
          IN  /\ np_random + sample_calls(n) <= MaxRandomCalls
              /\ mmg_raised' = r.exc
              /\ mmg_ret' = Some([method |-> "sample", value |-> r.value])
              /\ np_random' = np_random + sample_calls(n)
    /\ UNCHANGED <<mmg, mmg_args, samples, best_mode, moments_of, fallback,
                   results_vars, transform_vars, funnel_vars>>

\* the call returns (or its exception propagates): its locals are gone
MMG_return ==
    /\ mmg # None
    /\ mmg_ret # None
    /\ mmg_ret' = None
    /\ mmg_raised' = NoError
    /\ samples' = None
    /\ best_mode' = <<>>
    /\ moments_of' = <<>>
    /\ fallback' = <<>>
    /\ UNCHANGED <<mmg, mmg_args, results_vars, transform_vars,
                   funnel_vars, np_random>>

MMGNext ==
    \/ MMG_return
    \/ MMG_Construct
    \/ MMG_Discard
    \/ MMG_n_parameters
    \/ MMG_kl_divergence
    \/ MMG_distance
    \/ MMG_sample

----------------------------------------------------------------------------
(* Properties of MultimodalGaussianLogPDF.                                 *)

GivenModes == Get(mmg_args).modes
GivenCovs == Get(mmg_args).covariances
\* the conditions the constructor is said to reject, from its arguments
NoModes == GivenModes # None /\ Len(Get(GivenModes)) = 0
ModeCount == IF GivenModes = None THEN 2 ELSE Len(Get(GivenModes))
ModeDim == IF GivenModes = None THEN 2 ELSE Len(Get(GivenModes)[1])
ModeLengthsDiffer ==
    /\ GivenModes # None
    /\ \E i \in 1..ModeCount : Len(Get(GivenModes)[i]) # ModeDim
CovCountDiffers == GivenCovs # None /\ Len(Get(GivenCovs)) # ModeCount
CovShapeDiffers ==
    /\ GivenCovs # None
    /\ \E i \in 1..Len(Get(GivenCovs)) :
          Get(GivenCovs)[i].shape # <<ModeDim, ModeDim>>
Rejected ==
    NoModes \/ ModeLengthsDiffer \/ CovCountDiffers \/ CovShapeDiffers
ValueErrors ==
    {ModesEmptyError, ModesDimError, CovCountError, CovShapeError,
     NotPSDError, SamplesRankError, SamplesWidthError}
\* the covariance matrix of mode i once the arguments passed the checks
CovOf(i) == IF GivenCovs = None THEN eye(ModeDim) ELSE Get(GivenCovs)[i]
\* inverse is the inverse of the matrix m: (adj / det) m = 1
IsInverseOf(inverse, m) ==
    /\ inverse.det # 0
    /\ \A i, j \in 1..m.shape[1] :
          SeqSum([k \in 1..m.shape[1] |->
                     inverse.adj.rows[i][k] * m.rows[k][j]])
              = IF i = j THEN inverse.det ELSE 0
\* the constructor has run and no method was called since
AfterInit == mmg_args # None /\ mmg_ret = None

\* C8 as stated: construction raises ValueError exactly when the mode list
\* is empty, a mode's length differs from the first mode's, the number of
\* covariances differs from the number of modes, or a covariance is not
\* (d, d); in every other case it succeeds with n_parameters() = d and one
\* cached inverse covariance per mode.
C8_ValueErrorExactly ==
    AfterInit =>
        /\ (mmg_raised \in ValueErrors) <=> Rejected
        /\ ~Rejected =>
              /\ mmg # None
              /\ Get(mmg)._n_parameters = ModeDim
              /\ Len(Get(mmg)._sigma_invs) = ModeCount

\* C8 amended: the constructor's own checks raise ValueError exactly when
\* one of the four conditions holds; when none holds and every covariance
\* matrix is positive definite, construction succeeds with
\* n_parameters() = d and, for each mode, the cached inverse of that mode's
\* covariance; when none holds and some covariance matrix is not positive
\* definite, construction fails in scipy / numpy.
C8_Construction ==
    AfterInit =>
        /\ (mmg_raised \in {ModesEmptyError, ModesDimError, CovCountError,
                            CovShapeError}) <=> Rejected
        /\ Rejected => mmg = None
        /\ (~Rejected /\ \A i \in 1..ModeCount : PositiveDefinite(CovOf(i)))
              => /\ mmg # None
                 /\ mmg_raised = NoError
                 /\ Get(mmg)._n_parameters = ModeDim
                 /\ Len(Get(mmg)._modes) = ModeCount
                 /\ Len(Get(mmg)._sigma_invs) = ModeCount
                 /\ \A i \in 1..ModeCount :
                       IsInverseOf(Get(mmg)._sigma_invs[i], CovOf(i))
        /\ (~Rejected /\ \E i \in 1..ModeCount : ~PositiveDefinite(CovOf(i)))
              => /\ mmg = None
                 /\ mmg_raised \in {NotPSDError, SingularError}

\* C8 witness: built from two modes with two different covariance matrices
C8_Witness ==
    /\ AfterInit
    /\ mmg # None
    /\ GivenCovs # None
    /\ ModeCount = 2
    /\ Get(GivenCovs)[1] # Get(GivenCovs)[2]
    /\ Get(mmg)._sigma_invs[1] # Get(mmg)._sigma_invs[2]

\* a kl_divergence or distance call has computed its result
AfterKL ==
    /\ mmg # None
    /\ mmg_ret # None
    /\ Get(mmg_ret).method \in {"kl_divergence", "distance"}
    /\ mmg_raised = NoError

\* the log-density of mode j (0-based) at row k of the samples
LogDensity(j, k) == logpdf(Get(mmg)._vars[j + 1], Get(samples).rows[k])

\* row k went to the mode b of highest log-density, the first of them
FirstHighest(k, b) ==
    /\ b \in 0..(Len(Get(mmg)._vars) - 1)
    /\ \A j \in 0..(Len(Get(mmg)._vars) - 1) :
          /\ LogDensity(j, k) <= LogDensity(b, k)
          /\ j < b => LogDensity(j, k) < LogDensity(b, k)

\* C9: kl_divergence assigns each sample to the mode whose log-density at
\* the sample is highest, and to the lowest such mode index on a tie.
C9_HighestModeFirst ==
    AfterKL =>
        \A k \in 1..Get(samples).shape[1] : FirstHighest(k, best_mode[k])

\* what holds of C9: a sample whose log-density is above -inf at some mode
\* goes to the first mode of highest log-density
C9_WhenSomeDensityFinite ==
    AfterKL =>
        \A k \in 1..Get(samples).shape[1] :
            (\E j \in 0..(Len(Get(mmg)._vars) - 1) : LogDensity(j, k) > NegInf)
                => FirstHighest(k, best_mode[k])

\* a tie between two modes was resolved
C9_TieReached ==
    /\ AfterKL
    /\ \E k \in 1..Get(samples).shape[1] :
          /\ Len(Get(mmg)._vars) = 2
          /\ LogDensity(0, k) = LogDensity(1, k)
          /\ LogDensity(0, k) > NegInf
          /\ best_mode[k] = 0

\* the indices of the samples assigned to mode i (0-based)
AssignedTo(i) == {k \in 1..Len(best_mode) : best_mode[k] = i}

\* the rows with index k or more that are in the index set S, in order
RECURSIVE RowsIn(_, _, _)
RowsIn(rows, S, k) ==
    IF k > Len(rows) THEN <<>>
    ELSE (IF k \in S THEN <<rows[k]>> ELSE <<>>) \o RowsIn(rows, S, k + 1)

\* the rows mode i's empirical moments are to be taken from
MomentRows(i) ==
    IF AssignedTo(i) = {} THEN Get(samples).rows
    ELSE RowsIn(Get(samples).rows, AssignedTo(i), 1)

\* the per-mode entries of the result
KLEntries ==
    [i \in 1..Len(Get(mmg)._modes) |->
        [fn |-> "kl",
         form |-> IF Get(mmg)._n_parameters > 1 THEN "multivariate"
                  ELSE "univariate",
         y |-> MomentRows(i - 1),
         m1 |-> Get(mmg)._modes[i], s1 |-> Get(mmg)._covs[i]]]

\* C10: the result of kl_divergence has one entry per mode; mode i's
\* moments are taken from all the samples (the fallback) if and only if no
\* sample was assigned to mode i, and otherwise from exactly the samples
\* assigned to it; distance(samples) is the sum of the per-mode entries.
C10_MomentSamples ==
    AfterKL =>
        LET M == Len(Get(mmg)._modes)
        IN  /\ Len(moments_of) = M
            /\ Len(fallback) = M
            /\ \A i \in 1..M :
                  /\ fallback[i] <=> (AssignedTo(i - 1) = {})
                  /\ moments_of[i].rows = MomentRows(i - 1)
            /\ Get(mmg_ret).method = "kl_divergence" =>
                  /\ Len(Get(Get(mmg_ret).value)) = M
                  /\ Get(Get(mmg_ret).value) = KLEntries
            /\ Get(mmg_ret).method = "distance" =>
                  Get(Get(mmg_ret).value) = [fn |-> "sum", of |-> KLEntries]

\* C10 witness: distance() on samples that leave one mode without samples
\* and give another mode some, but not all, of the samples
C10_Witness ==
    /\ AfterKL
    /\ Get(mmg_ret).method = "distance"
    /\ \E i, j \in 1..Len(fallback) :
          /\ fallback[i]
          /\ ~fallback[j]
          /\ Len(moments_of[j].rows) < Get(samples).shape[1]

\* C13: for every accepted sample array, kl_divergence gives each row a
\* mode index in 0..M-1, never the placeholder -1, so that every row is
\* among the samples assigned to exactly one mode.
C13_RowsPartitioned ==
    AfterKL =>
        LET M == Len(Get(mmg)._vars)
        IN  \A k \in 1..Len(best_mode) :
                /\ best_mode[k] \in 0..(M - 1)
                /\ Cardinality({i \in 0..(M - 1) : k \in AssignedTo(i)}) = 1

----------------------------------------------------------------------------
(* class NealsFunnelLogPDF (pints/toy/_neals_funnel.py).  The dimensions   *)
(* argument is a number, given as a reduced fraction <<num, den>>; inputs  *)
(* and samples have integer coordinates.                                   *)

FunnelDimError == "ValueError: Dimensions must exceed 1."
FunnelLengthError ==
    "ValueError: Length of x must be equal number of parameters"
FunnelRankError == "ValueError: Given samples list must be n x 2."
\* 'Given samples must have length ' + str(self._n_parameters)
FunnelWidthError(d) == "ValueError: Given samples must have length " \o str(d)
NegativeShapeError == "ValueError: negative dimensions are not allowed"

\* a test that only rejects dimensions below 1
dimensions_below_one(dimensions) == dimensions[1] < 1 * dimensions[2]

\* dimensions < 2
dimensions_below_two(dimensions) == dimensions[1] < 2 * dimensions[2]

\* __init__(dimensions): the exception raised and the instance
Funnel_init(dimensions) ==
    IF dimensions_below_two(dimensions)
    THEN [raised |-> FunnelDimError, self |-> None]
    ELSE [raised |-> NoError,
          self |-> Some([_n_parameters |-> int(dimensions), _s1 |-> 9,
                         _s1_inv |-> Frac(1, 9), _m1 |-> 0])]

\* scipy.stats.norm.logpdf(x, loc, scale)
norm_logpdf(x, loc, scale) ==
    [fn |-> "norm.logpdf", x |-> x, loc |-> loc, scale |-> scale]

\* len(x) != self._n_parameters
length_differs(x, n) == Len(x) # n

\* __call__(x)
Funnel_call_value(obj, x) ==
    IF length_differs(x, obj._n_parameters) THEN Raise(FunnelLengthError)
    ELSE LET nu == x[Len(x)]
             x_temp == SubSeq(x, 1, Len(x) - 1)
             x_log_pdf ==
                 [k \in 1..Len(x_temp) |->
                     norm_logpdf(x_temp[k], 0,
                                 [fn |-> "exp", of |-> Frac(nu, 2)])]
         IN  Return([fn |-> "add",
                     sum |-> x_log_pdf, nu |-> norm_logpdf(nu, 0, 3)])

\* evaluateS1(x): the pair (L, dL)
Funnel_evaluateS1_value(obj, x) ==
    LET L == Funnel_call_value(obj, x)
    IN  IF L.exc # NoError THEN L
        ELSE LET nu == x[Len(x)]
                 x_temp == SubSeq(x, 1, Len(x) - 1)
                 cons == [fn |-> "exp", of |-> -nu]
                 dnu_first ==
                     [k \in 1..Len(x_temp) |->
                         [fn |-> "half_of_cons_var_squared_minus_1",
                          var |-> x_temp[k], cons |-> cons]]
                 dnu == [fn |-> "dnu", first |-> dnu_first,
                         nu_over_9 |-> Frac(nu, 9)]
                 dL == [k \in 1..Len(x_temp) |->
                           [fn |-> "neg_var_times_cons",
                            var |-> x_temp[k], cons |-> cons]]
             IN  Return([L |-> Get(L.value), dL |-> Append(dL, dnu)])

\* the shape checks of kl_divergence
funnel_samples_error(obj, smp) ==
    IF Len(smp.shape) # 2 THEN FunnelRankError
    ELSE IF smp.shape[2] # obj._n_parameters
    THEN FunnelWidthError(obj._n_parameters)
    ELSE NoError

\* kl_divergence(samples): the KL divergence of the last column from N(0, 3)
Funnel_kl_divergence_value(obj, smp) ==
    IF funnel_samples_error(obj, smp) # NoError
    THEN Raise(funnel_samples_error(obj, smp))
    ELSE Return([fn |-> "kl", nu |-> Column(smp, obj._n_parameters),
                 s1 |-> obj._s1, s1_inv |-> obj._s1_inv, m1 |-> obj._m1])

\* distance(samples)
Funnel_distance_value(obj, smp) == Funnel_kl_divergence_value(obj, smp)

\* sample(n_samples) with the global generator having handed out g calls:
\* row k holds the x of call g + 2k and, last, the nu of call g + 2k - 1
Funnel_sample_value(obj, n_samples, g) ==
    IF n_samples < 0 THEN Raise(NegativeShapeError)
    ELSE LET n == obj._n_parameters
         IN  Return(Array(
                 [k \in 1..n_samples |->
                     [i \in 1..n |->
                         IF i = n THEN Variate(g + 2 * k - 1, 1)
                         ELSE Variate(g + 2 * k, i)]], n))

\* the calls on np.random that sample(n_samples) makes
Funnel_sample_calls(n_samples) == IF n_samples < 0 THEN 0 ELSE 2 * n_samples

----------------------------------------------------------------------------
(* Inputs and operations of NealsFunnelLogPDF.                             *)


DimensionVals ==
    {Frac(n, 1) : n \in (-1)..MaxFunnelDim} \cup {Frac(3, 2), Frac(5, 2)}
FunnelInputs == UNION {[1..n -> {0, 1}] : n \in 0..(MaxFunnelDim + 1)}
\* a 1-d array, a 3-d array, and the 2-d arrays of up to two rows
FunnelSampleArrays ==
    {[shape |-> <<2>>, rows |-> <<<<0>>, <<1>>>>],
     [shape |-> <<1, 1, 2>>, rows |-> <<<<0, 1>>>>]}
    \cup {ChainFrom(0, n, w) : n \in 0..2, w \in 1..(MaxFunnelDim + 1)}
Funnel_Construct ==
    /\ funnel = None
    /\ funnel_args = None
    /\ \E dimensions \in DimensionVals :
          LET r == Funnel_init(dimensions)
          IN  /\ funnel_args' = Some(dimensions)
              /\ funnel' = r.self
              /\ funnel_raised' = r.raised
    /\ funnel_ret' = None
    /\ UNCHANGED <<results_vars, transform_vars, mmg_vars, np_random>>

\* the instance (or the failed construction) goes out of use
Funnel_Discard ==
    /\ funnel_args # None
    /\ funnel' = None
    /\ funnel_args' = None
    /\ funnel_raised' = NoError
    /\ funnel_ret' = None
    /\ UNCHANGED <<results_vars, transform_vars, mmg_vars, np_random>>

\* no call on the instance is in progress
Funnel_Idle == funnel # None /\ funnel_ret = None

\* a call of method m with argument arg and outcome r, up to its return
FunnelCall(m, arg, r) ==
    /\ funnel_ret' = Some([method |-> m, arg |-> arg, value |-> r.value])
    /\ funnel_raised' = r.exc
    /\ UNCHANGED <<funnel, funnel_args, results_vars, transform_vars,
                   mmg_vars>>

Funnel_call ==
    /\ Funnel_Idle
    /\ \E x \in FunnelInputs :
          FunnelCall("__call__", x, Funnel_call_value(Get(funnel), x))
    /\ UNCHANGED np_random

Funnel_evaluateS1 ==
    /\ Funnel_Idle
    /\ \E x \in FunnelInputs :
          FunnelCall("evaluateS1", x, Funnel_evaluateS1_value(Get(funnel), x))
    /\ UNCHANGED np_random

Funnel_n_parameters ==
    /\ Funnel_Idle
    /\ FunnelCall("n_parameters", <<>>, Return(Get(funnel)._n_parameters))
    /\ UNCHANGED np_random

Funnel_kl_divergence ==
    /\ Funnel_Idle
    /\ \E smp \in FunnelSampleArrays :
          FunnelCall("kl_divergence", smp,
                     Funnel_kl_divergence_value(Get(funnel), smp))
    /\ UNCHANGED np_random

Funnel_distance ==
    /\ Funnel_Idle
    /\ \E smp \in FunnelSampleArrays :
          FunnelCall("distance", smp,
                     Funnel_distance_value(Get(funnel), smp))
    /\ UNCHANGED np_random

\* sample(n_samples): every draw is a call on the global np.random
Funnel_sample ==
    /\ Funnel_Idle
    /\ \E n_samples \in SampleCounts :
          /\ np_random + Funnel_sample_calls(n_samples) <= MaxRandomCalls
          /\ FunnelCall("sample", <<n_samples>>,
                        Funnel_sample_value(Get(funnel), n_samples,
                                            np_random))
          /\ np_random' = np_random + Funnel_sample_calls(n_samples)

\* the call returns (or its exception propagates)
Funnel_return ==
    /\ funnel # None
    /\ funnel_ret # None
    /\ funnel_ret' = None
    /\ funnel_raised' = NoError
    /\ UNCHANGED <<funnel, funnel_args, results_vars, transform_vars,
                   mmg_vars, np_random>>

FunnelNext ==
    \/ Funnel_Construct
    \/ Funnel_Discard
    \/ Funnel_call
    \/ Funnel_evaluateS1
    \/ Funnel_n_parameters
    \/ Funnel_kl_divergence
    \/ Funnel_distance
    \/ Funnel_sample
    \/ Funnel_return

----------------------------------------------------------------------------
(* Properties of NealsFunnelLogPDF.                                        *)

\* the dimensions argument is below 2
DimensionsBelowTwo == Get(funnel_args)[1] < 2 * Get(funnel_args)[2]

\* a call of one of the methods ms on the instance is at its return
FunnelCalled(ms) ==
    /\ funnel # None
    /\ funnel_ret # None
    /\ Get(funnel_ret).method \in ms

FunnelArg == Get(funnel_ret).arg
FunnelDim == Get(funnel)._n_parameters

\* the call in progress raised a ValueError and returned nothing
FunnelValueError ==
    /\ funnel_raised \in {FunnelLengthError, FunnelRankError,
                          FunnelWidthError(FunnelDim)}
    /\ Get(funnel_ret).value = None

\* C11: NealsFunnelLogPDF(dimensions) raises ValueError for every
\* dimensions < 2 and succeeds for every dimensions >= 2; on an instance of
\* dimension d, __call__ and evaluateS1 raise ValueError for every input
\* whose length differs from d, kl_divergence raises ValueError for every
\* sample array that is not 2-d or whose column count differs from d, and
\* the gradient evaluateS1 returns for an input of length d has exactly d
\* entries, the derivative with respect to nu last.
C11_FunnelValidation ==
    /\ funnel_args # None =>
          /\ DimensionsBelowTwo <=> funnel = None
          /\ funnel = None => funnel_raised = FunnelDimError
          /\ funnel # None => FunnelDim >= 2
    /\ funnel_args # None /\ funnel # None /\ funnel_ret = None =>
          funnel_raised = NoError
    /\ FunnelCalled({"__call__", "evaluateS1"}) =>
          /\ Len(FunnelArg) # FunnelDim => FunnelValueError
          /\ Len(FunnelArg) = FunnelDim => funnel_raised = NoError
    /\ (/\ FunnelCalled({"kl_divergence"})
        /\ (Len(FunnelArg.shape) # 2 \/ FunnelArg.shape[2] # FunnelDim))
          => FunnelValueError
    /\ FunnelCalled({"evaluateS1"}) /\ Len(FunnelArg) = FunnelDim =>
          LET dL == Get(Get(funnel_ret).value).dL
          IN  /\ Len(dL) = FunnelDim
              /\ dL[FunnelDim].fn = "dnu"
              /\ \A k \in 1..(FunnelDim - 1) :
                    /\ dL[k].fn = "neg_var_times_cons"
                    /\ dL[k].var = FunnelArg[k]

\* C11 witness: an instance built from a non-integer dimensions >= 2
\* returned a gradient for an input of its dimension
C11_Witness ==
    /\ FunnelCalled({"evaluateS1"})
    /\ Get(funnel_args)[2] # 1
    /\ Len(FunnelArg) = FunnelDim
    /\ funnel_raised = NoError

----------------------------------------------------------------------------
(* Process-global state: the logging configuration and the generator       *)
(* behind np.random.                                                       *)

\* a MultimodalGaussianLogPDF and a NealsFunnelLogPDF drawing samples in
\* one process
SamplingNext ==
    \/ MMG_Construct
    \/ MMG_Discard
    \/ MMG_sample
    \/ MMG_return
    \/ Funnel_Construct
    \/ Funnel_Discard
    \/ Funnel_sample
    \/ Funnel_return

\* C12: no operation of MCMCResults, MultimodalGaussianLogPDF or
\* NealsFunnelLogPDF modifies process-global state: every step leaves the
\* logging configuration and the state of the global random generator as
\* they were.
C12_GlobalStateUntouched ==
    [][logging_configured' = logging_configured /\ np_random' = np_random]_vars

----------------------------------------------------------------------------
(* Specifications.                                                         *)

ResultsInit ==
    /\ args = None
    /\ self = NoInstance
    /\ raised = NoError
    /\ warnings = <<>>
    /\ logging_configured = FALSE
    /\ stacked = None
    /\ ret = NoCall
    /\ recalcs = 0

TransformInit ==
    /\ transform = "Transform"
    /\ tcall = None
    /\ tresult = None

MMGInit ==
    /\ mmg = None
    /\ mmg_args = None
    /\ mmg_raised = NoError
    /\ samples = None
    /\ best_mode = <<>>
    /\ moments_of = <<>>
    /\ fallback = <<>>
    /\ mmg_ret = None

FunnelInit ==
    /\ funnel = None
    /\ funnel_args = None
    /\ funnel_raised = NoError
    /\ funnel_ret = None

Init ==
    /\ ResultsInit
    /\ TransformInit
    /\ MMGInit
    /\ FunnelInit
    /\ np_random = 0

\* the MCMCResults class alone
SpecResults == Init /\ [][ResultsNext]_vars

\* the Transform classes alone
SpecTransform == Init /\ [][TransformNext]_vars

\* the MultimodalGaussianLogPDF class alone
SpecMMG == Init /\ [][MMGNext]_vars

\* the NealsFunnelLogPDF class alone
SpecFunnel == Init /\ [][FunnelNext]_vars

\* the two toy distributions sampling side by side
SpecSampling == Init /\ [][SamplingNext]_vars

====
